---- MODULE Spec2Model ----
(***************************************************************************)
(* The iterative AI-guided login workflow of Clooney AI.                   *)
(*                                                                         *)
(* main builds initial_state and hands it to clone_graph.invoke.  The      *)
(* graph has two nodes, login_node (browser actions) and openai_node       *)
(* (advisor calls); after each node the conditional edge should_continue   *)
(* routes to the next node or ends the loop.  main's finally clause then   *)
(* releases the browser with cleanup_browser.                              *)
(*                                                                         *)
(* The session dictionary (CloneState) is the record `state`.  The browser *)
(* (Playwright driver), the page and the advisor service are the           *)
(* environment: every outcome they can produce is drawn with \E.           *)
(***************************************************************************)
EXTENDS Integers, FiniteSets, Sequences, TLC

VARIABLES
    pc,        \* where control is: "login", "openai", "end", "returned", "done"
               \* ("interrupted" when a KeyboardInterrupt left clone_graph.invoke,
               \* "idle" when main is not run)
    state,     \* the CloneState dictionary threaded through the nodes
    driver,    \* the Playwright resources: launched, and close calls received
    page_gen,  \* number of browser actions issued so far (page generations)
    last_exc,  \* how the last node call dealt with an exception, if one was raised
    hist,      \* what the environment did: the advisor's last answer, the tokens
               \* it has reported in all, the last password probe, whether the
               \* shortcut was taken, the clicks that failed at click_email_continue,
               \* where an interrupt from outside hit the run, the retries the
               \* session had used when invoked and the route-backs taken since
    agl        \* a call of ai_guided_login (browser/login.py), an entry point of
               \* its own: where it is, its attempt, its browser and its outcome

vars == <<pc, state, driver, page_gen, last_exc, hist, agl>>

(***************************************************************************)
(* Program constants and bounds.                                           *)
(***************************************************************************)
MaxIterations == 10

MaxRetries == 3

\* Cap on total_tokens_used (the counter is unbounded in the program).
MaxTokens == 2

\* Largest token count one advisor response reports.
MaxResponseTokens == 1

TokenCounts == 0..MaxResponseTokens

Selectors == {"input#email", "button.next"}

AdvisorSteps ==
    {"find_email", "find_email_continue", "find_password", "find_submit", "verify_login"}

BrowserSteps ==
    {"init", "enter_email", "click_email_continue", "enter_password", "click_submit"}

Steps == AdvisorSteps \cup BrowserSteps \cup {"completed", "failed"}

\* The browser steps that act on a selector of ai_guidance.
ActionSteps == BrowserSteps \ {"init"}

\* The advisor step whose answer sends the session to the action step `step`.
LocatingStep(step) ==
    CASE step = "enter_email" -> "find_email"
      [] step = "click_email_continue" -> "find_email_continue"
      [] step = "enter_password" -> "find_password"
      [] step = "click_submit" -> "find_submit"

(***************************************************************************)
(* Values of the session dictionary.                                       *)
(***************************************************************************)
NoGuidance ==
    [present |-> FALSE, selector |-> "None", confidence |-> "None",
     logged_in |-> FALSE, note |-> "None"]

\* The parsed JSON object of an advisor response, stored as ai_guidance.
Guidance(resp) ==
    [present |-> TRUE, selector |-> resp.selector, confidence |-> resp.confidence,
     logged_in |-> resp.logged_in, note |-> "None"]

PasswordVisibleNote ==
    [present |-> TRUE, selector |-> "None", confidence |-> "None",
     logged_in |-> FALSE, note |-> "Password field already visible"]

NoAction == [text |-> "None", selector |-> "None"]

initial_state ==
    [status            |-> "initialized",
     error             |-> "None",
     current_step      |-> "init",
     iteration_count   |-> 0,
     last_action       |-> NoAction,
     ai_guidance       |-> NoGuidance,
     last_error        |-> "None",
     step_retry_count  |-> 0,
     login_successful  |-> "None",
     login_url         |-> 0,
     login_screenshot  |-> "None",
     total_tokens_used |-> 0,
     browser_session   |-> "None",
     current_dom       |-> 0]

(***************************************************************************)
(* should_continue: the conditional edge taken after every node.           *)
(***************************************************************************)
\* Mutant: the budget test written as > instead of >=.
should_continue_gt(s) ==
    IF s.iteration_count > MaxIterations THEN "end"
    ELSE IF s.current_step = "completed" THEN "end"
    ELSE IF s.current_step = "failed" THEN "end"
    ELSE IF s.current_step \in AdvisorSteps THEN "openai"
    ELSE IF s.current_step \in BrowserSteps THEN "login"
    ELSE "end"

\* Mutant: the test for failed is missing and login is the default route.
should_continue_default_login(s) ==
    IF s.iteration_count >= MaxIterations THEN "end"
    ELSE IF s.current_step = "completed" THEN "end"
    ELSE IF s.current_step \in AdvisorSteps THEN "openai"
    ELSE "login"

\* Mutant: find_email listed with the browser steps instead of the advisor steps.
should_continue_misrouted(s) ==
    IF s.iteration_count >= MaxIterations THEN "end"
    ELSE IF s.current_step = "completed" THEN "end"
    ELSE IF s.current_step = "failed" THEN "end"
    ELSE IF s.current_step \in AdvisorSteps \ {"find_email"} THEN "openai"
    ELSE IF s.current_step \in BrowserSteps \cup {"find_email"} THEN "login"
    ELSE "end"

should_continue(s) ==
    IF s.iteration_count >= MaxIterations THEN "end"
    ELSE IF s.current_step = "completed" THEN "end"
    ELSE IF s.current_step = "failed" THEN "end"
    ELSE IF s.current_step \in AdvisorSteps THEN "openai"
    ELSE IF s.current_step \in BrowserSteps THEN "login"
    ELSE "end"

(***************************************************************************)
(* login_node: the dictionaries it returns, one operator per return.       *)
(* `gen` is the page generation captured by page.content()/page.url.       *)
(***************************************************************************)
\* Mutant: the step name written by init is misspelt.
InitLoaded_misnamed(s, gen) ==
    [s EXCEPT !.current_step = "find_mail",
              !.iteration_count = @ + 1,
              !.last_action = [text |-> "Initialized browser and loaded login page",
                               selector |-> "None"],
              !.browser_session = "live",
              !.current_dom = gen,
              !.error = "None"]

InitLoaded(s, gen) ==
    [s EXCEPT !.current_step = "find_email",
              !.iteration_count = @ + 1,
              !.last_action = [text |-> "Initialized browser and loaded login page",
                               selector |-> "None"],
              !.browser_session = "live",
              !.current_dom = gen,
              !.error = "None"]

SessionLost(s) ==
    [s EXCEPT !.current_step = "failed", !.error = "Browser session lost"]

\* Mutant: a missing selector is counted as a used retry.
NoSelector_counts_retry(s, what) ==
    [s EXCEPT !.current_step = "failed", !.error = what,
              !.step_retry_count = @ + 1]

NoSelector(s, what) ==
    [s EXCEPT !.current_step = "failed", !.error = what]

\* Mutant: the route back to find_email does not count the retry.
EnterEmailRetry_uncounted(s, selector) ==
    [s EXCEPT !.current_step = "find_email",
              !.last_error = selector,
              !.iteration_count = @ + 1]

\* Mutant: the route back to find_email forgets the hint about the failed selector.
EnterEmailRetry_no_hint(s, selector) ==
    [s EXCEPT !.current_step = "find_email",
              !.step_retry_count = @ + 1,
              !.iteration_count = @ + 1]

EnterEmailRetry(s, selector) ==
    [s EXCEPT !.current_step = "find_email",
              !.last_error = selector,
              !.step_retry_count = @ + 1,
              !.iteration_count = @ + 1]

EnterEmailExhausted(s) ==
    [s EXCEPT !.current_step = "failed",
              !.error = "Failed to enter email after 3 attempts"]

\* Mutant: the email step advances without counting the iteration.
EnterEmailAdvance_uncounted(s, selector, gen) ==
    [s EXCEPT !.current_step = "find_email_continue",
              !.last_action = [text |-> "Entered email using selector",
                               selector |-> selector],
              !.current_dom = gen]

EnterEmailAdvance(s, selector, gen) ==
    [s EXCEPT !.current_step = "find_email_continue",
              !.iteration_count = @ + 1,
              !.last_action = [text |-> "Entered email using selector",
                               selector |-> selector],
              !.current_dom = gen]

\* Mutant: the click step starts a count of its own at its first failure.
ClickContinueRetry_own_count(s, selector) ==
    [s EXCEPT !.current_step = "find_email_continue",
              !.last_error = selector,
              !.step_retry_count = 1,
              !.iteration_count = @ + 1]

ClickContinueRetry(s, selector) ==
    [s EXCEPT !.current_step = "find_email_continue",
              !.last_error = selector,
              !.step_retry_count = @ + 1,
              !.iteration_count = @ + 1]

ClickContinueExhausted(s) ==
    [s EXCEPT !.current_step = "failed",
              !.error = "Failed to click continue button after 3 attempts"]

ClickContinueAdvance(s, selector, gen) ==
    [s EXCEPT !.current_step = "find_password",
              !.iteration_count = @ + 1,
              !.last_action = [text |-> "Clicked continue button",
                               selector |-> selector],
              !.current_dom = gen,
              !.last_error = "None",
              !.step_retry_count = 0]

EnterPasswordAdvance(s, selector, gen) ==
    [s EXCEPT !.current_step = "find_submit",
              !.iteration_count = @ + 1,
              !.last_action = [text |-> "Entered password using selector",
                               selector |-> selector],
              !.current_dom = gen]

ClickSubmitFailed(s) ==
    [s EXCEPT !.current_step = "failed",
              !.error = "Failed to click submit button"]

ClickSubmitAdvance(s, selector, gen) ==
    [s EXCEPT !.current_step = "verify_login",
              !.iteration_count = @ + 1,
              !.last_action = [text |-> "Clicked submit button",
                               selector |-> selector],
              !.current_dom = gen,
              !.login_screenshot = "output/screenshots/after_login_click.png"]

UnknownStep(s) ==
    [s EXCEPT !.current_step = "failed", !.error = "Unknown step"]

\* Mutant: the handler records the error and leaves current_step as it was.
LoginNodeError_keeps_step(s) ==
    [s EXCEPT !.error = "Login node error"]

\* The except clause that wraps the whole body of login_node.
LoginNodeError(s) ==
    [s EXCEPT !.current_step = "failed", !.error = "Login node error"]

(***************************************************************************)
(* The outcomes the browser can produce during one call of login_node.     *)
(*   launch   : "ok"; "launch_fails" (start()/launch() raises, no browser  *)
(*              exists); "nav_fails" (the browser is up, then new_context, *)
(*              new_page, goto, wait or content raises); init only         *)
(*   act      : the fill or click with the advisor's selector              *)
(*   fallback : focus + keyboard.type after a failed fill                  *)
(*   capture  : wait_for_timeout / content / url / screenshot after it     *)
(***************************************************************************)
LoginEnv ==
    [launch   : {"ok", "launch_fails", "nav_fails"},
     act      : {"ok", "fails"},
     fallback : {"ok", "fails"},
     capture  : {"ok", "fails"}]

\* ai_guidance = state.get("ai_guidance", {}); selector = ai_guidance.get("selector").
\* The key is always present, so a None guidance makes .get raise AttributeError.
GuidanceRaises(s) == ~s.ai_guidance.present

\* Mutant: the retry test inverted, so the keyboard fallback runs on the early
\* failures and the route back on the late one.
enter_email_fallback_first(s, env, gen) ==
    LET selector == s.ai_guidance.selector IN
    IF GuidanceRaises(s) THEN LoginNodeError(s)
    ELSE IF selector = "None" THEN NoSelector(s, "No email selector from AI")
    ELSE IF env.act = "fails" /\ s.step_retry_count >= MaxRetries
        THEN EnterEmailRetry(s, selector)
    ELSE IF env.act = "fails" /\ env.fallback = "fails" THEN EnterEmailExhausted(s)
    ELSE IF env.capture = "fails" THEN LoginNodeError(s)
    ELSE EnterEmailAdvance(s, selector, gen)

enter_email(s, env, gen) ==
    LET selector == s.ai_guidance.selector IN
    IF GuidanceRaises(s) THEN LoginNodeError(s)
    ELSE IF selector = "None" THEN NoSelector(s, "No email selector from AI")
    ELSE IF env.act = "fails" /\ s.step_retry_count < MaxRetries
        THEN EnterEmailRetry(s, selector)
    ELSE IF env.act = "fails" /\ env.fallback = "fails" THEN EnterEmailExhausted(s)
    ELSE IF env.capture = "fails" THEN LoginNodeError(s)
    ELSE EnterEmailAdvance(s, selector, gen)

\* Mutant: the retry test written as <= instead of <.
click_email_continue_le(s, env, gen) ==
    LET selector == s.ai_guidance.selector IN
    IF GuidanceRaises(s) THEN LoginNodeError(s)
    ELSE IF selector = "None" THEN NoSelector(s, "No continue button selector from AI")
    ELSE IF env.act = "fails" /\ s.step_retry_count <= MaxRetries
        THEN ClickContinueRetry(s, selector)
    ELSE IF env.act = "fails" THEN ClickContinueExhausted(s)
    ELSE IF env.capture = "fails" THEN LoginNodeError(s)
    ELSE ClickContinueAdvance(s, selector, gen)

click_email_continue(s, env, gen) ==
    LET selector == s.ai_guidance.selector IN
    IF GuidanceRaises(s) THEN LoginNodeError(s)
    ELSE IF selector = "None" THEN NoSelector(s, "No continue button selector from AI")
    ELSE IF env.act = "fails" /\ s.step_retry_count < MaxRetries
        THEN ClickContinueRetry(s, selector)
    ELSE IF env.act = "fails" THEN ClickContinueExhausted(s)
    ELSE IF env.capture = "fails" THEN LoginNodeError(s)
    ELSE ClickContinueAdvance(s, selector, gen)

\* Mutant: a failed password fill routes back to find_password like the email step.
enter_password_routes_back(s, env, gen) ==
    LET selector == s.ai_guidance.selector IN
    IF GuidanceRaises(s) THEN LoginNodeError(s)
    ELSE IF selector = "None" THEN NoSelector(s, "No password selector from AI")
    ELSE IF env.act = "fails"
        THEN [s EXCEPT !.current_step = "find_password",
                       !.last_error = selector,
                       !.step_retry_count = @ + 1,
                       !.iteration_count = @ + 1]
    ELSE IF env.capture = "fails" THEN LoginNodeError(s)
    ELSE EnterPasswordAdvance(s, selector, gen)

enter_password(s, env, gen) ==
    LET selector == s.ai_guidance.selector IN
    IF GuidanceRaises(s) THEN LoginNodeError(s)
    ELSE IF selector = "None" THEN NoSelector(s, "No password selector from AI")
    ELSE IF env.act = "fails" /\ env.fallback = "fails" THEN LoginNodeError(s)
    ELSE IF env.capture = "fails" THEN LoginNodeError(s)
    ELSE EnterPasswordAdvance(s, selector, gen)

click_submit(s, env, gen) ==
    LET selector == s.ai_guidance.selector IN
    IF GuidanceRaises(s) THEN LoginNodeError(s)
    ELSE IF selector = "None" THEN NoSelector(s, "No submit button selector from AI")
    ELSE IF env.act = "fails" THEN ClickSubmitFailed(s)
    ELSE IF env.capture = "fails" THEN LoginNodeError(s)
    ELSE ClickSubmitAdvance(s, selector, gen)

\* Mutant: the browser-session check is left out.
login_node_no_session_check(s, env, gen) ==
    IF s.current_step = "init"
        THEN IF env.launch = "ok" THEN InitLoaded(s, gen) ELSE LoginNodeError(s)
    ELSE IF s.current_step = "enter_email" THEN enter_email(s, env, gen)
    ELSE IF s.current_step = "click_email_continue" THEN click_email_continue(s, env, gen)
    ELSE IF s.current_step = "enter_password" THEN enter_password(s, env, gen)
    ELSE IF s.current_step = "click_submit" THEN click_submit(s, env, gen)
    ELSE UnknownStep(s)

login_node(s, env, gen) ==
    IF s.current_step = "init"
        THEN IF env.launch = "ok" THEN InitLoaded(s, gen) ELSE LoginNodeError(s)
    ELSE IF s.browser_session = "None" THEN SessionLost(s)
    ELSE IF s.current_step = "enter_email" THEN enter_email(s, env, gen)
    ELSE IF s.current_step = "click_email_continue" THEN click_email_continue(s, env, gen)
    ELSE IF s.current_step = "enter_password" THEN enter_password(s, env, gen)
    ELSE IF s.current_step = "click_submit" THEN click_submit(s, env, gen)
    ELSE UnknownStep(s)

\* Whether this call of login_node issues a browser action on the page.
LoginActs(s, env) ==
    IF s.current_step = "init" THEN env.launch = "ok"
    ELSE /\ s.browser_session = "live"
         /\ s.current_step \in BrowserSteps
         /\ s.ai_guidance.present
         /\ s.ai_guidance.selector # "None"

\* Whether this call of login_node starts a browser (chromium.launch succeeded).
LoginLaunches(s, env) ==
    s.current_step = "init" /\ env.launch \in {"ok", "nav_fails"}

\* How login_node dealt with an exception raised during this call:
\*   "none"     nothing was raised
\*   "retry"    a fill/click exception was turned into a route back to the locating step
\*   "fallback" a fill exception was absorbed by a successful keyboard fallback
\*   "fatal"    an exception ended in one of the handlers that return failed
LoginException(s, env) ==
    IF s.current_step = "init"
        THEN IF env.launch = "ok" THEN "none" ELSE "fatal"
    ELSE IF s.browser_session = "None" \/ s.current_step \notin BrowserSteps THEN "none"
    ELSE IF GuidanceRaises(s) THEN "fatal"
    ELSE IF s.ai_guidance.selector = "None" THEN "none"
    ELSE IF env.act = "fails"
        THEN IF /\ s.current_step \in {"enter_email", "click_email_continue"}
                /\ s.step_retry_count < MaxRetries
                THEN "retry"
             ELSE IF /\ s.current_step \in {"enter_email", "enter_password"}
                     /\ env.fallback = "ok"
                     /\ env.capture = "ok"
                THEN "fallback"
             ELSE "fatal"
    ELSE IF env.capture = "fails" THEN "fatal"
    ELSE "none"

(***************************************************************************)
(* openai_node.  The advisor service answers one of:                       *)
(*   "raise"   the call raises (service error, timeout, page.title())      *)
(*   "badjson" a response whose content json.loads rejects                 *)
(*   "json"    a response whose content is a JSON object                   *)
(* and reports `tokens` as response.usage.total_tokens.                    *)
(***************************************************************************)
AdvisorResponses ==
    [kind : {"raise"}, selector : {"None"}, confidence : {"None"},
     logged_in : {FALSE}, tokens : {0}]
    \cup
    [kind : {"badjson"}, selector : {"None"}, confidence : {"None"},
     logged_in : {FALSE}, tokens : TokenCounts]
    \cup
    [kind : {"json"}, selector : Selectors \cup {"None"}, confidence : {"high", "low"},
     logged_in : BOOLEAN, tokens : TokenCounts]

\* page.locator("input[type='password']").count() at find_email_continue.
ProbeOutcomes == {"visible", "absent", "raises"}

\* Positional parameters each prompt builder declares.
PromptParams(step) ==
    IF step \in {"find_email", "verify_login"} THEN 3 ELSE 2

\* Positional arguments openai_node passes to the prompt builder of `step`.
PromptArgs(step) == 3

\* Building the prompt raises TypeError: too many positional arguments, or
\* html_content[:n] applied to a current_dom that is None.
PromptRaises(s, step) ==
    PromptArgs(step) > PromptParams(step) \/ s.current_dom = 0

\* Mutant: the failure return writes a fresh token counter.
AdvisorFailed_resets_tokens(s, step) ==
    [s EXCEPT !.current_step = "failed",
              !.error = "AI analysis failed for " \o step,
              !.total_tokens_used = 0]

AdvisorFailed(s, step) ==
    [s EXCEPT !.current_step = "failed",
              !.error = "AI analysis failed for " \o step]

\* Mutant: the step advances but the advisor's guess is not stored.
LocateFound_drops_guess(s, next, resp) ==
    [s EXCEPT !.current_step = next,
              !.total_tokens_used = @ + resp.tokens]

LocateFound(s, next, resp) ==
    [s EXCEPT !.current_step = next,
              !.ai_guidance = Guidance(resp),
              !.total_tokens_used = @ + resp.tokens]

\* Mutant: the shortcut skips the locating step and keeps the email guidance.
PasswordVisible_skips_locating(s) ==
    [s EXCEPT !.current_step = "enter_password"]

\* Mutant: the shortcut still sends the session to the continue click.
PasswordVisible_clicks_anyway(s) ==
    [s EXCEPT !.current_step = "click_email_continue",
              !.ai_guidance = PasswordVisibleNote]

PasswordVisible(s) ==
    [s EXCEPT !.current_step = "find_password",
              !.ai_guidance = PasswordVisibleNote]

\* Mutant: an answer that does not parse leaves the step as it is, to be asked again.
locate_retries_badjson(s, step, next, resp) ==
    IF PromptRaises(s, step) \/ resp.kind = "raise" THEN AdvisorFailed(s, step)
    ELSE IF resp.kind = "badjson" THEN s
    ELSE LocateFound(s, next, resp)

locate(s, step, next, resp) ==
    IF PromptRaises(s, step) \/ resp.kind # "json"
        THEN AdvisorFailed(s, step)
        ELSE LocateFound(s, next, resp)

\* Mutant: the login is confirmed but the page URL is not recorded.
VerifyCompleted_no_url(s, resp) ==
    [s EXCEPT !.current_step = "completed",
              !.ai_guidance = Guidance(resp),
              !.total_tokens_used = @ + resp.tokens,
              !.login_successful = "True",
              !.status = "logged_in"]

VerifyCompleted(s, resp) ==
    [s EXCEPT !.current_step = "completed",
              !.ai_guidance = Guidance(resp),
              !.total_tokens_used = @ + resp.tokens,
              !.login_successful = "True",
              !.login_url = s.current_dom,
              !.status = "logged_in"]

\* Mutant: a low-confidence refusal is treated like a confident one.
VerifyRecheck_fails(s, resp) ==
    [s EXCEPT !.current_step = "failed",
              !.ai_guidance = Guidance(resp),
              !.total_tokens_used = @ + resp.tokens,
              !.login_successful = "False",
              !.error = "Login verification failed",
              !.status = "login_failed"]

VerifyRecheck(s, resp) ==
    [s EXCEPT !.current_step = "verify_login",
              !.ai_guidance = Guidance(resp),
              !.total_tokens_used = @ + resp.tokens]

VerifyFailed(s, resp) ==
    [s EXCEPT !.current_step = "failed",
              !.ai_guidance = Guidance(resp),
              !.total_tokens_used = @ + resp.tokens,
              !.login_successful = "False",
              !.error = "Login verification failed",
              !.status = "login_failed"]

verify_login(s, resp) ==
    IF PromptRaises(s, "verify_login") \/ resp.kind # "json"
        THEN AdvisorFailed(s, "verify_login")
    ELSE IF resp.logged_in THEN VerifyCompleted(s, resp)
    ELSE IF resp.confidence = "low" THEN VerifyRecheck(s, resp)
    ELSE VerifyFailed(s, resp)

UnknownAdvisorStep(s) ==
    [s EXCEPT !.error = "Unknown step for AI analysis"]

openai_node(s, resp, probe) ==
    IF s.current_step = "find_email"
        THEN locate(s, "find_email", "enter_email", resp)
    ELSE IF s.current_step = "find_email_continue"
        THEN IF s.browser_session = "live" /\ probe = "visible"
                THEN PasswordVisible(s)
                ELSE locate(s, "find_email_continue", "click_email_continue", resp)
    ELSE IF s.current_step = "find_password"
        THEN locate(s, "find_password", "enter_password", resp)
    ELSE IF s.current_step = "find_submit"
        THEN locate(s, "find_submit", "click_submit", resp)
    ELSE IF s.current_step = "verify_login" THEN verify_login(s, resp)
    ELSE UnknownAdvisorStep(s)

\* How openai_node dealt with an exception raised during this call.
\*   "probe" : the password probe raised and was ignored (except: pass)
AdvisorException(s, resp, probe) ==
    IF s.current_step \notin AdvisorSteps THEN "none"
    ELSE IF s.current_step = "find_email_continue"
            /\ s.browser_session = "live" /\ probe = "visible" THEN "none"
    ELSE IF PromptRaises(s, s.current_step) \/ resp.kind # "json" THEN "fatal"
    ELSE IF s.current_step = "find_email_continue"
            /\ s.browser_session = "live" /\ probe = "raises" THEN "probe"
    ELSE "none"

\* What the advisor service did in this call of openai_node: "not_called" when the
\* node returns before chat.completions.create (shortcut, prompt builder raised,
\* unknown step), else the kind of its answer.
AdvisorOutcome(s, resp, probe) ==
    IF s.current_step \notin AdvisorSteps THEN "not_called"
    ELSE IF s.current_step = "find_email_continue"
            /\ s.browser_session = "live" /\ probe = "visible" THEN "not_called"
    ELSE IF PromptRaises(s, s.current_step) THEN "not_called"
    ELSE resp.kind

\* Tokens the service reported in this call (response.usage.total_tokens).
TokensReported(s, resp, probe) ==
    IF AdvisorOutcome(s, resp, probe) \in {"badjson", "json"} THEN resp.tokens ELSE 0

\* Whether this call of login_node is a click at click_email_continue that fails.
ContinueClickFails(s, env) ==
    /\ s.current_step = "click_email_continue"
    /\ s.browser_session = "live"
    /\ s.ai_guidance.present
    /\ s.ai_guidance.selector # "None"
    /\ env.act = "fails"

\* What page.locator("input[type='password']").count() did in this call: "none"
\* when the probe is not run.
ProbeResult(s, probe) ==
    IF s.current_step = "find_email_continue" /\ s.browser_session = "live"
        THEN probe ELSE "none"

NoHistory ==
    [advisor |-> "not_called", reported |-> 0, probe |-> "none",
     shortcut |-> FALSE, click_failures |-> 0, stop |-> "none",
     carried |-> 0, email_retries |-> 0, click_retries |-> 0]

(***************************************************************************)
(* cleanup_browser: context.close(), browser.close(), playwright.stop()    *)
(* inside one try; the first call that raises skips the rest.              *)
(***************************************************************************)
CleanupOutcomes == {"ok", "context_close_raises", "browser_close_raises"}

cleanup_browser(d, s, out) ==
    IF s.browser_session = "None" THEN d
    ELSE [d EXCEPT !.context_close = @ + 1,
                   !.browser_close = IF out = "context_close_raises" THEN @ ELSE @ + 1,
                   !.playwright_stop = IF out = "ok" THEN @ + 1 ELSE @]

(***************************************************************************)
(* The run of main.                                                        *)
(***************************************************************************)
\* ai_guided_login has not been called.
NoCall ==
    [pc |-> "idle", max_attempts |-> 0, creds |-> FALSE, attempt |-> 0,
     launched |-> FALSE, browser_close |-> 0, stopped |-> FALSE,
     outcome |-> "none", attempts |-> 0, last |-> "none"]

NoDriver ==
    [launched |-> FALSE, context_close |-> 0, browser_close |-> 0, playwright_stop |-> 0]

Init ==
    /\ pc = "login"
    /\ state = initial_state
    /\ driver = NoDriver
    /\ page_gen = 0
    /\ last_exc = "none"
    /\ hist = NoHistory
    /\ agl = NoCall

\* Whether this call of login_node routes back to the locating step of `step`.
RoutesBack(s, env, step) ==
    s.current_step = step /\ LoginException(s, env) = "retry"

\* One call of login_node_sync followed by the conditional edge, the browser
\* behaving in one of the ways `envs`.
LoginNodeWith(envs) ==
    /\ pc = "login"
    /\ \E env \in envs :
        LET gen == IF LoginActs(state, env) THEN page_gen + 1 ELSE page_gen IN
        /\ state' = login_node(state, env, gen)
        /\ page_gen' = gen
        /\ driver' = IF LoginLaunches(state, env)
                        THEN [driver EXCEPT !.launched = TRUE] ELSE driver
        /\ last_exc' = LoginException(state, env)
        /\ hist' = [hist EXCEPT !.advisor = "not_called",
                                !.probe = "none",
                                !.click_failures =
                                    IF ContinueClickFails(state, env) THEN @ + 1 ELSE @,
                                !.email_retries =
                                    IF RoutesBack(state, env, "enter_email")
                                        THEN @ + 1 ELSE @,
                                !.click_retries =
                                    IF RoutesBack(state, env, "click_email_continue")
                                        THEN @ + 1 ELSE @]
    /\ pc' = should_continue(state')
    /\ UNCHANGED agl

LoginNode == LoginNodeWith(LoginEnv)

\* One call of openai_node_sync followed by the conditional edge, the advisor
\* answering one of `resps` and the password probe doing one of `probes`.
OpenaiNodeWith(resps, probes) ==
    /\ pc = "openai"
    /\ \E resp \in resps, probe \in probes :
        /\ hist.reported + resp.tokens <= MaxTokens
        /\ state' = openai_node(state, resp, probe)
        /\ last_exc' = AdvisorException(state, resp, probe)
        /\ hist' = [hist EXCEPT !.advisor = AdvisorOutcome(state, resp, probe),
                                !.reported = @ + TokensReported(state, resp, probe),
                                !.probe = ProbeResult(state, probe),
                                !.shortcut = @ \/ ProbeResult(state, probe) = "visible"]
    /\ pc' = should_continue(state')
    /\ UNCHANGED <<driver, page_gen, agl>>

OpenaiNode == OpenaiNodeWith(AdvisorResponses, ProbeOutcomes)

\* clone_graph.invoke returns the final state to main (result = ...).
InvokeReturns ==
    /\ pc = "end"
    /\ pc' = "returned"
    /\ UNCHANGED <<state, driver, page_gen, last_exc, hist, agl>>

\* main's finally clause: cleanup_browser(result) if result holds a session.
MainFinally ==
    /\ pc = "returned"
    /\ \E out \in CleanupOutcomes :
        driver' = cleanup_browser(driver, state, out)
    /\ pc' = "done"
    /\ UNCHANGED <<state, page_gen, last_exc, hist, agl>>

Next == LoginNode \/ OpenaiNode \/ InvokeReturns \/ MainFinally

Spec == Init /\ [][Next]_vars

(***************************************************************************)
(* clone_graph.invoke on any session.  The graph is exported by the        *)
(* workflows package and its entry edge START -> login is fixed, so the    *)
(* inputs are the sessions should_continue itself routes to login: a       *)
(* browser step and an unspent budget.  A session past init carries the    *)
(* caller's live browser (or none) and the guidance of its locating step.  *)
(* initial_state is one of these inputs.                                   *)
(***************************************************************************)
ResumeGuidance ==
    {NoGuidance, PasswordVisibleNote}
    \cup {Guidance([selector |-> sel, confidence |-> "high", logged_in |-> FALSE]) :
            sel \in Selectors}

InvokeInputs ==
    {s \in {[initial_state EXCEPT !.current_step = u[1],
                                  !.iteration_count = u[2],
                                  !.step_retry_count = u[3],
                                  !.browser_session = u[4],
                                  !.ai_guidance = u[5],
                                  !.current_dom = IF u[4] = "live" THEN 1 ELSE 0] :
                u \in BrowserSteps \X (0..MaxIterations) \X (0..MaxRetries)
                      \X {"None", "live"} \X ResumeGuidance} :
        /\ should_continue(s) = "login"
        /\ s.current_step = "init" =>
                /\ s.browser_session = "None"
                /\ s.ai_guidance = NoGuidance
                /\ s.step_retry_count = 0}

InvokeInit ==
    /\ pc = "login"
    /\ state \in InvokeInputs
    /\ driver = [NoDriver EXCEPT !.launched = (state.browser_session = "live")]
    /\ page_gen = state.current_dom
    /\ last_exc = "none"
    /\ hist = [NoHistory EXCEPT !.carried = state.step_retry_count]
    /\ agl = NoCall

InvokeSpec == InvokeInit /\ [][Next]_vars

(***************************************************************************)
(* The runs of main in which nothing goes wrong: the browser launches,     *)
(* every action and snapshot succeeds, and every advisor call returns a    *)
(* JSON object with a selector (with logged_in = true at verify_login).    *)
(***************************************************************************)
HappyEnv == {env \in LoginEnv : env.launch = "ok" /\ env.act = "ok" /\ env.capture = "ok"}

HappyResponses(s) ==
    {r \in AdvisorResponses :
        /\ r.kind = "json"
        /\ r.selector # "None"
        /\ s.current_step = "verify_login" => r.logged_in}

HappyLoginNode == LoginNodeWith(HappyEnv)

HappyOpenaiNode == OpenaiNodeWith(HappyResponses(state), {"visible", "absent"})

HappyNext == HappyLoginNode \/ HappyOpenaiNode \/ InvokeReturns \/ MainFinally

HappySpec == Init /\ [][HappyNext]_vars

(***************************************************************************)
(* cleanup_browser called again on the session main already cleaned up.    *)
(* The function reads state["browser_session"] and nothing else: it keeps  *)
(* no record of an earlier call and leaves the session in the state.       *)
(***************************************************************************)
MaxReleases == 2

ReleaseAgain ==
    /\ pc = "done"
    /\ state.browser_session = "live"
    /\ driver.context_close < MaxReleases
    /\ \E out \in CleanupOutcomes :
        driver' = cleanup_browser(driver, state, out)
    /\ UNCHANGED <<pc, state, page_gen, last_exc, hist, agl>>

ReleaseNext == Next \/ ReleaseAgain

ReleaseSpec == InvokeInit /\ [][ReleaseNext]_vars

(***************************************************************************)
(* A stop from outside.  Neither main nor the graph reads a stop request:  *)
(* the only one the program can receive is SIGINT, which Python raises as  *)
(* KeyboardInterrupt in the main thread, between two nodes ("boundary") or *)
(* while a node waits on the browser or the advisor ("mid_node").  It is   *)
(* not an Exception, so no except clause of the nodes catches it; it       *)
(* leaves clone_graph.invoke before `result` is assigned.                  *)
(***************************************************************************)
StopPoints == {"boundary", "mid_node"}

\* chromium.launch may have completed when the interrupt hits init mid-node.
InterruptedDriver(d, s, at) ==
    IF at = "mid_node" /\ s.current_step = "init"
        THEN {d, [d EXCEPT !.launched = TRUE]}
        ELSE {d}

Interrupt ==
    /\ pc \in {"login", "openai"}
    /\ \E at \in StopPoints :
        /\ hist' = [hist EXCEPT !.stop = at]
        /\ driver' \in InterruptedDriver(driver, state, at)
    /\ pc' = "interrupted"
    /\ UNCHANGED <<state, page_gen, last_exc, agl>>

\* main's finally clause with result = None: cleanup_browser is not called.
InterruptedFinally ==
    /\ pc = "interrupted"
    /\ pc' = "done"
    /\ UNCHANGED <<state, driver, page_gen, last_exc, hist, agl>>

StopNext == Next \/ Interrupt \/ InterruptedFinally

StopSpec == Init /\ [][StopNext]_vars

(***************************************************************************)
(* ai_guided_login(url, email, password, max_attempts), browser/login.py.  *)
(* agl.pc follows the function: "start", "goto", then per attempt          *)
(* "identify", "fill", "verify"; "all_failed" after the loop, "except" in  *)
(* the outer handler, "exit" on leaving `async with async_playwright()`,   *)
(* "returned" when the caller has the result or the exception.             *)
(* agl.last is what the last step met; agl.outcome is "success",           *)
(* "LoginError" or "Error" (an exception that is not a LoginError).        *)
(***************************************************************************)
MaxAttemptsBound == 3

\* The failures the loop answers with `if attempt < max_attempts: continue`.
StageFailures ==
    {"identification_failed", "form_failed", "verification_failed", "negative"}

\* `continue` when attempts are left, else the step's own way out of the loop.
NextAttemptOr(c, what, way_out) ==
    IF c.attempt < c.max_attempts
        THEN [c EXCEPT !.pc = "identify", !.attempt = @ + 1, !.last = what]
        ELSE [c EXCEPT !.pc = way_out, !.last = what]

\* An exception raised inside the outer try block.
Raised(c, what) == [c EXCEPT !.pc = "except", !.last = what]

AglInit ==
    /\ pc = "idle"
    /\ state = initial_state
    /\ driver = NoDriver
    /\ page_gen = 0
    /\ last_exc = "none"
    /\ hist = NoHistory
    /\ \E m \in 1..MaxAttemptsBound, cr \in BOOLEAN :
        agl = [NoCall EXCEPT !.pc = "start", !.max_attempts = m, !.creds = cr]

\* The credentials check, then async_playwright(), chromium.launch, new_context
\* and new_page, all before the try block.
AglStart ==
    /\ agl.pc = "start"
    /\ \E launch \in {"ok", "launch_fails", "context_fails"} :
        agl' = IF ~agl.creds
                   THEN [agl EXCEPT !.pc = "returned", !.outcome = "LoginError",
                                    !.last = "no_credentials"]
               ELSE IF launch = "ok"
                   THEN [agl EXCEPT !.pc = "goto", !.launched = TRUE, !.last = "ok"]
               ELSE [agl EXCEPT !.pc = "exit", !.outcome = "Error",
                                !.launched = (launch = "context_fails"),
                                !.last = "launch_raised"]
    /\ UNCHANGED <<pc, state, driver, page_gen, last_exc, hist>>

\* page.goto and the wait; the loop starts with attempt = 1.
AglGoto ==
    /\ agl.pc = "goto"
    /\ \E goto \in {"ok", "raises"} :
        agl' = IF goto = "ok"
                   THEN [agl EXCEPT !.pc = "identify", !.attempt = 1, !.last = "ok"]
                   ELSE Raised(agl, "goto_raised")
    /\ UNCHANGED <<pc, state, driver, page_gen, last_exc, hist>>

\* Steps 1 and 2: page.content() and identify_login_elements.
AglIdentify ==
    /\ agl.pc = "identify"
    /\ \E snapshot \in {"ok", "raises"}, identified \in BOOLEAN :
        agl' = IF snapshot = "raises" THEN Raised(agl, "snapshot_raised")
               ELSE IF ~identified
                   THEN NextAttemptOr(agl, "identification_failed", "except")
               ELSE [agl EXCEPT !.pc = "fill", !.last = "ok"]
    /\ UNCHANGED <<pc, state, driver, page_gen, last_exc, hist>>

\* Step 3: the fills and the click, inside the inner try; a missing selector
\* raises LoginError there and is caught like any other exception.
AglFill ==
    /\ agl.pc = "fill"
    /\ \E form \in {"ok", "raises"} :
        agl' = IF form = "raises" THEN NextAttemptOr(agl, "form_failed", "except")
               ELSE [agl EXCEPT !.pc = "verify", !.last = "ok"]
    /\ UNCHANGED <<pc, state, driver, page_gen, last_exc, hist>>

\* Step 4: page.title(), page.content(), verify_login_success, the verdict and,
\* on a positive one, the screenshot and the return.
AglVerify ==
    /\ agl.pc = "verify"
    /\ \E snapshot \in {"ok", "raises"},
          verdict \in {"call_fails", "negative", "positive"},
          screenshot \in {"ok", "raises"} :
        agl' = IF snapshot = "raises" THEN Raised(agl, "snapshot_raised")
               ELSE IF verdict = "call_fails"
                   THEN NextAttemptOr(agl, "verification_failed", "except")
               ELSE IF verdict = "negative"
                   THEN NextAttemptOr(agl, "negative", "all_failed")
               ELSE IF screenshot = "raises" THEN Raised(agl, "screenshot_raised")
               ELSE [agl EXCEPT !.pc = "exit", !.outcome = "success",
                                !.attempts = agl.attempt, !.last = "ok"]
    /\ UNCHANGED <<pc, state, driver, page_gen, last_exc, hist>>

\* After the loop: browser.close(), then raise LoginError, still inside the try.
AglAllFailed ==
    /\ agl.pc = "all_failed"
    /\ agl' = [agl EXCEPT !.pc = "except", !.browser_close = @ + 1]
    /\ UNCHANGED <<pc, state, driver, page_gen, last_exc, hist>>

\* except Exception: browser.close(), then raise LoginError; a close that raises
\* leaves the handler with its own exception.
AglExcept ==
    /\ agl.pc = "except"
    /\ \E close \in {"ok", "raises"} :
        agl' = [agl EXCEPT !.pc = "exit",
                           !.browser_close = @ + 1,
                           !.outcome = IF close = "ok" THEN "LoginError" ELSE "Error"]
    /\ UNCHANGED <<pc, state, driver, page_gen, last_exc, hist>>

\* Leaving `async with async_playwright() as p`, by return or by exception:
\* __aexit__ stops the Playwright driver, and with it the browser.
AglExit ==
    /\ agl.pc = "exit"
    /\ agl' = [agl EXCEPT !.pc = "returned", !.stopped = TRUE]
    /\ UNCHANGED <<pc, state, driver, page_gen, last_exc, hist>>

AglNext ==
    \/ AglStart \/ AglGoto \/ AglIdentify \/ AglFill \/ AglVerify
    \/ AglAllFailed \/ AglExcept \/ AglExit

AglSpec == AglInit /\ [][AglNext]_vars

\* The graph runner is a sequential program: it always takes its next step.
FairSpec == Spec /\ WF_vars(Next)

FairInvokeSpec == InvokeSpec /\ WF_vars(Next)

(***************************************************************************)
(* Properties.                                                             *)
(***************************************************************************)
\* should_continue has returned "end".
LoopEnded == pc \in {"end", "returned", "done"}

Terminal(s) == s.current_step \in {"completed", "failed"}

C2_BrowserClosedExactlyOnce ==
    /\ driver.browser_close <= 1
    /\ (pc = "done" /\ driver.launched) => driver.browser_close = 1

C4_FatalEndsAsFailure ==
    (LoopEnded /\ state.current_step # "completed") =>
        /\ state.login_successful = "False"
        /\ state.status = "login_failed"
        /\ state.error # "None"

\* The only text of the program that mentions the iteration cap (it is printed).
IterationCapReason == "Max iterations (10) reached"

C6_IterationAtMostTen == state.iteration_count <= MaxIterations

\* The loop returned with the budget used up.
C6_Witness == pc = "done" /\ state.iteration_count = MaxIterations

\* C7 (as stated): whenever a step, browser action or advisor, finishes and
\* current_step changes to a different non-failed step, iteration_count is greater
\* than before that step.
C7_EveryTransitionCounts ==
    [][(state'.current_step # state.current_step /\ state'.current_step # "failed")
        => state'.iteration_count > state.iteration_count]_vars

\* C7 (amended): whenever login_node finishes and current_step changes to a
\* different non-failed step, iteration_count is greater than before; openai_node
\* never changes iteration_count.
C7_BrowserTransitionsCount ==
    [][/\ (pc = "login" /\ state'.current_step # state.current_step
                        /\ state'.current_step # "failed")
            => state'.iteration_count > state.iteration_count
       /\ pc = "openai" => state'.iteration_count = state.iteration_count]_vars

\* A browser step advanced and counted, and the advisor step after it advanced
\* without counting.
C7_Witness ==
    /\ state.current_step = "enter_email"
    /\ state.last_action.text = "Initialized browser and loaded login page"
    /\ state.ai_guidance.present
    /\ state.iteration_count = 1

\* C8: once current_step is completed or failed no node runs again: control is
\* never at login_node or openai_node, the session is not changed and no browser
\* action is issued.
C8_NoStepAfterTerminal ==
    [][Terminal(state) =>
        /\ pc \notin {"login", "openai"}
        /\ pc' \notin {"login", "openai"}
        /\ state' = state
        /\ page_gen' = page_gen]_vars

\* main finished after a completed login.
C8_Witness == pc = "done" /\ state.current_step = "completed"

\* C9 (as stated): every exception raised inside login_node or openai_node is
\* converted into current_step = failed with a non-empty failure reason.
C9_EveryExceptionFails ==
    last_exc # "none" => (state.current_step = "failed" /\ state.error # "None")

\* C9 (amended): every exception raised inside a node is caught inside it: a failed
\* fill or click with retry budget left routes back to the locating step, a failed
\* fill whose keyboard fallback succeeds advances, and every other exception that
\* ends the step becomes current_step = failed with a non-empty reason.
C9_ExceptionsHandledInside ==
    /\ last_exc = "fatal" => (state.current_step = "failed" /\ state.error # "None")
    /\ last_exc = "retry" => state.current_step \in {"find_email", "find_email_continue"}
    /\ last_exc = "fallback" => state.current_step \in {"find_email_continue", "find_submit"}

\* The handler around login_node turned an exception into a failed session.
C9_Witness ==
    /\ last_exc = "fatal"
    /\ state.error = "Login node error"
    /\ state.browser_session = "live"

\* C10: step_retry_count stays within 0..3; it grows only by one, and only when a
\* failed fill at enter_email or a failed click at click_email_continue routes back
\* to the locating step.
C10_RetryBounded ==
    /\ [](state.step_retry_count \in 0..MaxRetries)
    /\ [][state'.step_retry_count > state.step_retry_count =>
            /\ pc = "login"
            /\ state'.step_retry_count = state.step_retry_count + 1
            /\ \/ state.current_step = "enter_email"
                  /\ state'.current_step = "find_email"
               \/ state.current_step = "click_email_continue"
                  /\ state'.current_step = "find_email_continue"]_vars

\* The third failed click routed back to find_email_continue.
C10_Witness ==
    /\ state.step_retry_count = MaxRetries
    /\ state.current_step = "find_email_continue"
    /\ state.last_error # "None"

\* C11: step_retry_count is 0 after enter_email succeeds (to find_email_continue),
\* after the password-already-visible shortcut (to find_password) and after
\* click_email_continue succeeds (to find_password).
C11_RetryResetOnAdvance ==
    [][(\/ state.current_step = "enter_email"
           /\ state'.current_step = "find_email_continue"
        \/ state.current_step = "find_email_continue"
           /\ state'.current_step = "find_password"
        \/ state.current_step = "click_email_continue"
           /\ state'.current_step = "find_password")
        => state'.step_retry_count = 0]_vars

ClickExhaustedReason == "Failed to click continue button after 3 attempts"

C13_FillFailureRoutesBack ==
    [][(pc = "login" /\ state.current_step = "enter_email" /\ last_exc' = "retry")
        => /\ state.step_retry_count < MaxRetries
           /\ state'.current_step = "find_email"
           /\ state'.step_retry_count = state.step_retry_count + 1
           /\ state'.last_error = state.ai_guidance.selector
           /\ state'.last_error # "None"]_vars

\* The first failed fill came back to find_email with its hint.
C13_Witness ==
    /\ last_exc = "retry"
    /\ state.current_step = "find_email"
    /\ state.step_retry_count = 1
    /\ state.last_error = "input#email"

\* C14: the keyboard fallback at enter_email is tried only on the fill failure at
\* step_retry_count = 3; when it fails the state is failed with the "3 attempts"
\* message, when it succeeds the step advances to find_email_continue.
C14_FallbackOnFourthFailure ==
    [][(pc = "login" /\ state.current_step = "enter_email")
        => /\ last_exc' = "fallback"
                => /\ state.step_retry_count = MaxRetries
                   /\ state'.current_step = "find_email_continue"
           /\ state'.error = "Failed to enter email after 3 attempts"
                => /\ state.step_retry_count = MaxRetries
                   /\ state'.current_step = "failed"]_vars

\* The fourth failed fill was rescued by the keyboard fallback.
C14_Witness ==
    /\ last_exc = "fallback"
    /\ state.current_step = "find_email_continue"
    /\ state.step_retry_count = MaxRetries
    /\ state.last_error # "None"

\* C15: when the advisor answers find_email with a guess that has a selector and
\* the fill at enter_email then succeeds, the next current_step is
\* find_email_continue and last_action mentions that selector.
C15_GuessThenFillAdvances ==
    [][/\ (pc = "openai" /\ state.current_step = "find_email"
                /\ hist'.advisor = "json")
            => /\ state'.current_step = "enter_email"
               /\ state'.ai_guidance.present
       /\ (pc = "login" /\ state.current_step = "enter_email"
                /\ state.browser_session = "live"
                /\ state.ai_guidance.present
                /\ state.ai_guidance.selector # "None"
                /\ last_exc' = "none")
            => /\ state'.current_step = "find_email_continue"
               /\ state'.last_action.text = "Entered email using selector"
               /\ state'.last_action.selector = state.ai_guidance.selector]_vars

\* The advisor's guess was filled in at the first attempt.
C15_Witness ==
    /\ state.current_step = "find_email_continue"
    /\ state.last_action.selector = "input#email"
    /\ state.ai_guidance.selector = "input#email"
    /\ state.step_retry_count = 0
    /\ hist.reported > 0

\* C16: at find_email_continue, when the probe finds a password input, the step
\* goes straight to find_password with no advisor call (total_tokens_used
\* unchanged), and click_email_continue is not entered afterwards.
C16_PasswordVisibleShortcut ==
    /\ [][(pc = "openai" /\ hist'.probe = "visible")
            => /\ state'.current_step = "find_password"
               /\ state'.total_tokens_used = state.total_tokens_used
               /\ hist'.advisor = "not_called"
               /\ hist'.reported = hist.reported]_vars
    /\ [](hist.shortcut => state.current_step # "click_email_continue")

\* The shortcut was taken.
C16_Witness ==
    /\ hist.probe = "visible"
    /\ state.current_step = "find_password"
    /\ state.ai_guidance = PasswordVisibleNote

\* C17: when the verify_login advisor call returns logged_in = false with
\* confidence "low", the resulting current_step is verify_login, not failed.
C17_LowConfidenceRechecks ==
    [][(pc = "openai" /\ state.current_step = "verify_login"
            /\ hist'.advisor = "json"
            /\ ~state'.ai_guidance.logged_in
            /\ state'.ai_guidance.confidence = "low")
        => state'.current_step = "verify_login"]_vars

\* A low-confidence refusal was answered and the session waits for a re-check.
C17_Witness ==
    /\ state.current_step = "verify_login"
    /\ hist.advisor = "json"
    /\ ~state.ai_guidance.logged_in
    /\ state.ai_guidance.confidence = "low"

\* C18: at verify_login a verdict logged_in = true gives completed with
\* login_successful = True and login_url = the session's current page URL; a
\* verdict logged_in = false with confidence other than "low" gives failed with
\* login_successful = False; no other transition enters completed.
C18_VerdictDecides ==
    [][/\ (pc = "openai" /\ state.current_step = "verify_login"
                /\ hist'.advisor = "json" /\ state'.ai_guidance.logged_in)
            => /\ state'.current_step = "completed"
               /\ state'.login_successful = "True"
               /\ state'.login_url = state.current_dom
               /\ state'.login_url = page_gen
       /\ (pc = "openai" /\ state.current_step = "verify_login"
                /\ hist'.advisor = "json" /\ ~state'.ai_guidance.logged_in
                /\ state'.ai_guidance.confidence # "low")
            => /\ state'.current_step = "failed"
               /\ state'.login_successful = "False"
       /\ (state'.current_step = "completed" /\ state.current_step # "completed")
            => /\ pc = "openai"
               /\ state.current_step = "verify_login"
               /\ hist'.advisor = "json"
               /\ state'.ai_guidance.logged_in]_vars

\* The advisor confirmed the login.
C18_Witness ==
    /\ state.current_step = "completed"
    /\ state.login_successful = "True"
    /\ state.login_url > 0
    /\ hist.advisor = "json"

LocateFailureReasons ==
    {"AI analysis failed for " \o step :
        step \in {"find_email_continue", "find_password", "find_submit"}}

\* C19: at find_email_continue (no password field), find_password and find_submit
\* the step fails only when the advisor call itself fails; a well-formed guess
\* moves on to click_email_continue, enter_password, click_submit.
C19_LocateFailsOnlyWithAdvisor ==
    (state.current_step = "failed" /\ state.error \in LocateFailureReasons)
        => hist.advisor \in {"raise", "badjson"}

\* C20: every token count the advisor service reports is added to
\* total_tokens_used, also when the response is not well-formed JSON.
C20_ReportedTokensAccumulated == state.total_tokens_used = hist.reported

\* C21: an advisor response that is not well-formed JSON, at any advisor step,
\* gives current_step = failed with the "AI analysis failed for <step>" reason;
\* the exception is handled inside the node and the loop ends without a retry.
C21_BadJsonFailsStep ==
    [][(pc = "openai" /\ hist'.advisor = "badjson")
        => /\ state'.current_step = "failed"
           /\ state'.error = "AI analysis failed for " \o state.current_step
           /\ last_exc' = "fatal"
           /\ pc' = "end"]_vars

\* The verdict of verify_login did not parse.
C21_Witness ==
    /\ hist.advisor = "badjson"
    /\ state.current_step = "failed"
    /\ state.error = "AI analysis failed for verify_login"

\* C22: an action step that runs on a session without a browser handle returns
\* failed with "Browser session lost" and changes nothing else: no browser
\* action is issued, step_retry_count and iteration_count are as before, and
\* the loop ends.
C22_SessionLostIsFatal ==
    [][(pc = "login" /\ state.current_step \in ActionSteps
            /\ state.browser_session = "None")
        => /\ state' = [state EXCEPT !.current_step = "failed",
                                     !.error = "Browser session lost"]
           /\ page_gen' = page_gen
           /\ driver' = driver
           /\ last_exc' = "none"
           /\ pc' = "end"]_vars

\* A session invoked at an action step without its browser was refused.
C22_Witness ==
    /\ state.error = "Browser session lost"
    /\ state.current_step = "failed"
    /\ state.browser_session = "None"
    /\ page_gen = 0

\* C23: however often cleanup_browser is called on a terminal session, the
\* context, the browser and the Playwright driver each receive their close or
\* stop call at most once.
C23_ReleaseIdempotent ==
    /\ driver.context_close <= 1
    /\ driver.browser_close <= 1
    /\ driver.playwright_stop <= 1

\* C24: whenever openai_node is about to run an advisor step, the snapshot in the
\* session was captured after the most recent browser action, a failed fill or
\* click included.
C24_AdvisorSeesLatestSnapshot ==
    (pc = "openai" /\ state.current_step \in AdvisorSteps)
        => state.current_dom = page_gen

\* C25: after an action step succeeds and advances (enter_email,
\* click_email_continue, enter_password, click_submit), last_error is empty.
C25_LastErrorClearedOnSuccess ==
    [][(\/ state.current_step = "enter_email"
           /\ state'.current_step = "find_email_continue"
        \/ state.current_step = "click_email_continue"
           /\ state'.current_step = "find_password"
        \/ state.current_step = "enter_password"
           /\ state'.current_step = "find_submit"
        \/ state.current_step = "click_submit"
           /\ state'.current_step = "verify_login")
        => state'.last_error = "None"]_vars

\* C26: current_step is always one of the twelve step names.
C26_StepInEnum == state.current_step \in Steps

\* The password step handed over to find_submit.
C26_Witness ==
    /\ state.current_step = "find_submit"
    /\ state.last_action.text = "Entered password using selector"

\* C27: an action step is entered only from its own locating step, by an advisor
\* answer that was stored as ai_guidance, and runs next; the selector it acts
\* on is the one of that guidance.
C27_SelectorFromOwnLocatingStep ==
    [][/\ (state'.current_step \in ActionSteps
                /\ state'.current_step # state.current_step)
            => /\ pc = "openai"
               /\ state.current_step = LocatingStep(state'.current_step)
               /\ hist'.advisor = "json"
               /\ state'.ai_guidance.present
               /\ state'.ai_guidance.note = "None"
               /\ pc' = "login"
       /\ (pc = "login" /\ state.current_step \in ActionSteps
                /\ state'.last_action # state.last_action)
            => state'.last_action.selector = state.ai_guidance.selector]_vars

\* After a first guess failed, the fill used the second guess, not the first.
C27_Witness ==
    /\ state.current_step = "find_email_continue"
    /\ state.last_error = "input#email"
    /\ state.last_action.selector = "button.next"
    /\ state.ai_guidance.selector = "button.next"

\* C28: at enter_password a failed fill falls back to focus-and-type with the same
\* selector; the step ends in find_submit (fallback worked) or failed, never
\* back at find_password, and step_retry_count is untouched.
C28_PasswordFallbackNoRetry ==
    [][(pc = "login" /\ state.current_step = "enter_password")
        => /\ state'.current_step \in {"find_submit", "failed"}
           /\ state'.step_retry_count = state.step_retry_count
           /\ last_exc' = "fallback"
                => /\ state'.current_step = "find_submit"
                   /\ state'.last_action.selector = state.ai_guidance.selector
           /\ last_exc' = "fatal" => state'.current_step = "failed"]_vars

\* The password was typed by the fallback.
C28_Witness ==
    /\ last_exc = "fallback"
    /\ state.current_step = "find_submit"
    /\ state.last_action.text = "Entered password using selector"
    /\ state.last_action.selector = state.ai_guidance.selector

\* C29: total_tokens_used never decreases, and a step that makes no advisor call
\* leaves it unchanged.
C29_TokensMonotonic ==
    [][/\ state'.total_tokens_used >= state.total_tokens_used
       /\ (pc # "openai" \/ hist'.advisor = "not_called")
            => state'.total_tokens_used = state.total_tokens_used]_vars

\* Tokens were counted, then an advisor step failed without a call and kept them.
C29_Witness ==
    /\ state.total_tokens_used > 0
    /\ hist.advisor = "not_called"
    /\ state.current_step = "failed"
    /\ state.error \in LocateFailureReasons

\* The reason login_node gives when the guidance of `step` has no selector.
NoSelectorReason(step) ==
    CASE step = "enter_email" -> "No email selector from AI"
      [] step = "click_email_continue" -> "No continue button selector from AI"
      [] step = "enter_password" -> "No password selector from AI"
      [] step = "click_submit" -> "No submit button selector from AI"

\* C30: a stop from outside takes effect between two steps, never while a node
\* is acting, and the browser it leaves behind is released exactly once.
C30_StopAtBoundaryThenRelease ==
    hist.stop # "none"
        => /\ hist.stop = "boundary"
           /\ (pc = "done" /\ driver.launched)
                => /\ driver.context_close = 1
                   /\ driver.browser_close = 1
                   /\ driver.playwright_stop = 1

\* C33: the run from the initial session in which every browser action succeeds
\* and every advisor call returns a well-formed answer (logged_in = true at
\* verify_login) ends with current_step = completed.
C33_HappyRunCompletes == pc = "done" => state.current_step = "completed"

\* C34: from the initial session iteration_count never exceeds 8 (init, at most
\* three retries, four successful action steps), so should_continue's test
\* iteration_count >= 10 never fires.
C34_IterationAtMostEight ==
    /\ state.iteration_count <= 1 + MaxRetries + Cardinality(ActionSteps)
    /\ state.iteration_count < MaxIterations

\* Three routed-back fills and a fourth that went through.
C34_Witness ==
    /\ state.iteration_count = MaxRetries + 2
    /\ state.step_retry_count = MaxRetries
    /\ state.current_step = "find_email_continue"

RetriesUsed == hist.carried + hist.email_retries + hist.click_retries

C36_DispatchMatchesNodes ==
    /\ [](/\ (pc = "login" => state.current_step \in BrowserSteps)
          /\ (pc = "openai" => state.current_step \in AdvisorSteps)
          /\ state.error \notin {"Unknown step", "Unknown step for AI analysis"}
          /\ (state.current_step = "init"
                => pc = "login" /\ state.iteration_count = 0 /\ ~driver.launched))
    /\ [][/\ (state.current_step # "init" => state'.current_step # "init")
           /\ ((pc = "login" /\ state.current_step = "init")
                => state'.current_step # "init")]_vars

\* The advisor node was dispatched for find_password after the shortcut.
C36_Witness ==
    /\ pc = "openai"
    /\ state.current_step = "find_password"
    /\ state.iteration_count = 2
    /\ driver.launched

\* C37: an action step whose guidance has no selector returns failed with its
\* 'No ... selector from AI' reason and changes nothing else: no browser action,
\* no retry consumed, whatever step_retry_count is.
C37_NoSelectorIsFatal ==
    [][(pc = "login" /\ state.current_step \in ActionSteps
            /\ state.browser_session = "live"
            /\ state.ai_guidance.present
            /\ state.ai_guidance.selector = "None")
        => /\ state' = [state EXCEPT !.current_step = "failed",
                                     !.error = NoSelectorReason(state.current_step)]
           /\ page_gen' = page_gen
           /\ last_exc' = "none"
           /\ pc' = "end"]_vars

\* The advisor answered find_email without a selector and enter_email gave up.
C37_Witness ==
    /\ state.error = "No email selector from AI"
    /\ state.current_step = "failed"
    /\ state.step_retry_count = 0
    /\ state.iteration_count = 1
    /\ state.ai_guidance.present

\* C31: with credentials present, ai_guided_login makes at most max_attempts
\* attempts and ends in one of two ways, a result with success = True and
\* 1 <= attempts <= max_attempts or LoginError; a failed identification, form
\* interaction, verification call or verdict leaves the loop only on the last
\* attempt.
C31_TwoOutcomesWithinAttempts ==
    /\ agl.attempt <= agl.max_attempts
    /\ (agl.pc = "returned" /\ agl.creds)
            => \/ agl.outcome = "success" /\ agl.attempts \in 1..agl.max_attempts
               \/ agl.outcome = "LoginError"
    /\ (agl.last \in StageFailures /\ agl.pc \in {"except", "all_failed"})
            => agl.attempt = agl.max_attempts

\* C32: when ai_guided_login has returned a successful result, neither the
\* browser nor the Playwright driver behind the returned handles has been
\* closed or stopped.
C32_ReturnedHandlesUsable ==
    (agl.pc = "returned" /\ agl.outcome = "success")
        => ~agl.stopped /\ agl.browser_close = 0

\* C38: when ai_guided_login has raised LoginError after launching the browser,
\* browser.close() has been called exactly once.
C38_CloseOnceBeforeLoginError ==
    (agl.pc = "returned" /\ agl.outcome = "LoginError" /\ agl.launched)
        => agl.browser_close = 1

====
